---- MODULE Spec2Model ----
(***************************************************************************)
(* Task scheduler, plugin manager and command dispatch of the Dunamis /    *)
(* ServiceX IRC bot (core/task_scheduler.py, core/plugin_manager.py).      *)
(*                                                                         *)
(* Everything runs on the reactor thread, so every handler is one atomic   *)
(* action.  A ScheduledTask is an object: the timers registered by         *)
(* _start_periodic_task and _start_onetime_task close over the object, not *)
(* over its id, so an object lives on after it leaves the task table for   *)
(* as long as one of its timers is registered.                             *)
(*                                                                         *)
(* Time is discrete.  A timer holds the time left until it is due; Tick    *)
(* advances the clock by one unit and is enabled only when no timer is     *)
(* due, so the reactor runs every timer exactly when it falls due.         *)
(***************************************************************************)
EXTENDS Integers, FiniteSets, Sequences, TLC

\* ------------------------------------------------------------- bounds
MaxObjs == 2        \* ScheduledTask objects alive at the same time
MaxIds == 2         \* size of the id space _generate_id draws from
MaxInterval == 2    \* largest interval requested
MaxDelay == 1       \* largest delay requested
MaxRuns == 2        \* largest max_runs requested
MaxRunCount == 3    \* run_count is not driven past this value
MaxOrphans == 1     \* timers an object may have lost its reference to

\* Python's None, for Optional[float] / Optional[int] attributes and for a
\* timer that is not pending.
None == -1

Objs == 1..MaxObjs
TaskIds == 1..MaxIds
Intervals == 1..MaxInterval
Delays == 0..MaxDelay
RunBounds == 1..MaxRuns

TaskState == {"PENDING", "RUNNING", "PAUSED", "STOPPED", "COMPLETED", "FAILED"}

\* plugin_name of a task no plugin owns
NoPlugin == "None"
\* plugins whose plugins/<name>/init.py exists and loads
GoodPlugins == {"A", "B"}
\* "bad": init.py raises while it is executed; "missing": no init.py
PluginNames == GoodPlugins \cup {"bad", "missing"}
CommandNames == {"x", "y", "z"}
ValueNames == {"v", "w"}

\* dir(plugin): the command_* and value_* attributes of a loaded plugin
PluginCommands(p) ==
    CASE p = "A" -> {"x", "y"}
      [] p = "B" -> {"y", "z"}
      [] OTHER -> {}

PluginValues(p) ==
    CASE p = "A" -> {"v"}
      [] p = "B" -> {"v", "w"}
      [] OTHER -> {}

VARIABLES
    tasks,            \* TaskScheduler.tasks: id -> object (0: no such key)
    obj,              \* the ScheduledTask objects
    loaded_plugins,   \* PluginManager.loaded_plugins (its keys)
    commands,         \* PluginManager.commands: name -> plugin of the handler
    values,           \* PluginManager.values: name -> plugin of the function
    value_names,      \* the keys of PluginManager.values, in the order of insertion
    last              \* the last call: what it was and what it returned

vars == <<tasks, obj, loaded_plugins, commands, values, value_names, last>>

\* ------------------------------------------------------------- records
\* task.LoopingCall: running, its interval, and the time left until its
\* pending call (None: no call pending)
NoLoopingCall == [made |-> FALSE, running |-> FALSE, ival |-> None, left |-> None]
\* reactor.callLater's IDelayedCall: "dummy" (lambda: None) or "once"
\* (_start_onetime_task's wrapped_callback); left = None: called or cancelled
NoDelayedCall == [kind |-> "none", left |-> None]

\* A free slot.  held says where the object is: "table" (a value of
\* TaskScheduler.tasks), or how it left: "removed", "unloaded", "replaced".
\* pure: only add_task, one start_task from PENDING and successful firings
\* have touched the object.
FreeObj ==
    [held |-> "free", id |-> 0, periodic |-> FALSE, interval |-> None,
     delay |-> 0, max_runs |-> None, state |-> "PENDING", run_count |-> 0,
     started_at |-> FALSE, last_run |-> FALSE, plugin_name |-> NoPlugin,
     lc |-> NoLoopingCall, dc |-> NoDelayedCall, orphans |-> <<>>,
     pure |-> FALSE]

\* ScheduledTask(...) as add_task builds it (dataclass defaults)
ScheduledTask(id, periodic, interval, delay, max_runs, plugin_name) ==
    [FreeObj EXCEPT !.held = "table", !.id = id, !.periodic = periodic,
                    !.interval = interval, !.delay = delay,
                    !.max_runs = max_runs, !.plugin_name = plugin_name,
                    !.pure = TRUE]

Result(op, ok, o, name, cb, n) ==
    [op |-> op, ok |-> ok, o |-> o, name |-> name, cb |-> cb, n |-> n]

\* a call on a task: the object it acted on is recorded when it succeeded
Called(op, ok, o) == Result(op, ok, IF ok THEN o ELSE 0, "", "none", 0)

Outcome(fires, cbok) == IF ~fires THEN "none" ELSE IF cbok THEN "ok" ELSE "raise"

\* ------------------------------------------------------------- timers
LoopRunning(t) == t.lc.made /\ t.lc.running
DelayedActive(t) == t.dc.kind # "none" /\ t.dc.left # None

\* the timer registrations of t that invoke t's callback when they fire
CallbackTimers(t) ==
    (IF LoopRunning(t) THEN 1 ELSE 0)
    + (IF t.dc.kind = "once" /\ t.dc.left # None THEN 1 ELSE 0)
    + Len(t.orphans)

\* every pending time of t's timers
PendingTimes(t) ==
    (IF LoopRunning(t) /\ t.lc.left # None THEN {t.lc.left} ELSE {})
    \cup (IF DelayedActive(t) THEN {t.dc.left} ELSE {})
    \cup {t.orphans[k].left : k \in 1..Len(t.orphans)}

\* an object nothing refers to any more is collected
Collect(ob) ==
    [o \in Objs |->
        IF ob[o].held \notin {"table", "free"} /\ CallbackTimers(ob[o]) = 0
        THEN FreeObj ELSE ob[o]]

\* objects other than keep that a call changed are no longer pure
Touch(new, old, keep) ==
    [o \in Objs |->
        IF o \notin keep /\ new[o] # old[o] /\ new[o].pure
        THEN [new[o] EXCEPT !.pure = FALSE] ELSE new[o]]

OrphanRoom(ob) == \A o \in Objs : Len(ob[o].orphans) <= MaxOrphans

\* ------------------------------------------------------------- stop_task
\* stop_task's check as it would be if it looked at the id only
stop_guard_known(ob, tb, id) == tb[id] # 0

stop_guard(ob, tb, id) ==
    tb[id] # 0 /\ ob[tb[id]].state \in {"RUNNING", "PAUSED"}

\* the try block of stop_task as it would be without lines 245-246
StopCallsKeepingDelayed(t) ==
    [t EXCEPT
        !.lc = IF @.made /\ @.running
               THEN [@ EXCEPT !.running = FALSE, !.left = None] ELSE @,
        !.state = "STOPPED"]

\* the try block of stop_task
StopCalls(t) ==
    [t EXCEPT
        !.lc = IF @.made /\ @.running
               THEN [@ EXCEPT !.running = FALSE, !.left = None] ELSE @,
        !.dc = IF @.kind # "none" /\ @.left # None
               THEN [@ EXCEPT !.left = None] ELSE @,
        !.state = "STOPPED"]

stop_task(ob, tb, id) ==
    IF stop_guard(ob, tb, id) THEN [ob EXCEPT ![tb[id]] = StopCalls(@)] ELSE ob

\* ------------------------------------------------------------- _execute_task
ReachedMaxRuns(t) ==
    t.periodic /\ t.max_runs # None /\ t.run_count >= t.max_runs

\* _execute_task as it would be if a failed firing stopped the LoopingCall
execute_task_halting(ob, tb, o, cbok) ==
    IF ~cbok
    THEN [ob EXCEPT ![o].state = "FAILED", ![o].lc.running = FALSE]
    ELSE LET ran == [ob EXCEPT ![o].last_run = TRUE, ![o].run_count = @ + 1]
         IN IF ReachedMaxRuns(ran[o])
            THEN [stop_task(ran, tb, ran[o].id) EXCEPT ![o].state = "COMPLETED"]
            ELSE ran

\* _execute_task as it would be if it counted the call before making it
execute_task_counting_calls(ob, tb, o, cbok) ==
    LET ran == [ob EXCEPT ![o].last_run = TRUE, ![o].run_count = @ + 1]
    IN IF ~cbok
       THEN [ran EXCEPT ![o].state = "FAILED"]
       ELSE IF ReachedMaxRuns(ran[o])
            THEN [stop_task(ran, tb, ran[o].id) EXCEPT ![o].state = "COMPLETED"]
            ELSE ran

\* cbok: the callback returns (TRUE) or raises (FALSE)
execute_task(ob, tb, o, cbok) ==
    IF ~cbok
    THEN [ob EXCEPT ![o].state = "FAILED"]
    ELSE LET ran == [ob EXCEPT ![o].last_run = TRUE, ![o].run_count = @ + 1]
         IN IF ReachedMaxRuns(ran[o])
            THEN [stop_task(ran, tb, ran[o].id) EXCEPT ![o].state = "COMPLETED"]
            ELSE ran

\* LoopingCall.__call__ after the function returned: the next call is
\* scheduled if the LoopingCall is still running
LoopReturn(ob, o) ==
    [ob EXCEPT ![o].lc.left = IF ob[o].lc.running THEN ob[o].lc.ival ELSE None]

\* ------------------------------------------------------------- start_task
\* start_task's check as it would be without lines 161-163
start_guard_not_running(ob, tb, id) ==
    tb[id] # 0 /\ ob[tb[id]].state # "RUNNING"

start_guard(ob, tb, id) ==
    tb[id] # 0 /\ ob[tb[id]].state \notin {"RUNNING", "COMPLETED"}

\* LoopingCall.start(None) raises (None < 0); callLater never raises on the
\* non-negative delays requested here
StartRaises(t) == t.periodic /\ t.interval = None

\* LoopingCall.start(interval, now=True) calls the function at once
FiresNow(t) == t.periodic /\ t.interval # None /\ ~(t.delay > 0)

\* orphans is a collection without order: it is kept sorted
Before(a, b) == a.ival < b.ival \/ (a.ival = b.ival /\ a.left <= b.left)

Orphan(s, r) ==
    LET n == Cardinality({k \in 1..Len(s) : Before(s[k], r)})
    IN SubSeq(s, 1, n) \o <<r>> \o SubSeq(s, n + 1, Len(s))

\* timers the object stops referring to when start_task replaces them
Replaced(t) ==
    IF t.periodic
    THEN IF LoopRunning(t)
         THEN Orphan(t.orphans, [kind |-> "loop", ival |-> t.lc.ival, left |-> t.lc.left])
         ELSE t.orphans
    ELSE IF t.dc.kind = "once" /\ t.dc.left # None
         THEN Orphan(t.orphans, [kind |-> "once", ival |-> None, left |-> t.dc.left])
         ELSE t.orphans

start_periodic_task(ob, tb, o, cbok) ==
    LET t == ob[o]
        fresh == [made |-> TRUE, running |-> TRUE, ival |-> t.interval, left |-> None]
    IN IF StartRaises(t)
       THEN [ob EXCEPT ![o] = [t EXCEPT !.orphans = Replaced(t),
                                        !.lc = [fresh EXCEPT !.running = FALSE]]]
       ELSE IF t.delay > 0
       THEN [ob EXCEPT ![o] = [t EXCEPT !.orphans = Replaced(t),
                                        !.lc = [fresh EXCEPT !.left = t.interval],
                                        !.dc = [kind |-> "dummy", left |-> t.delay]]]
       ELSE LoopReturn(
                execute_task([ob EXCEPT ![o] = [t EXCEPT !.orphans = Replaced(t),
                                                         !.lc = fresh]],
                             tb, o, cbok),
                o)

\* _start_onetime_task's delay as it would be if it took the larger of
\* delay, interval and 0
OnetimeMax(t) ==
    LET d == IF t.delay > 0 THEN t.delay ELSE 0
    IN IF t.interval # None /\ t.interval > d THEN t.interval ELSE d

OnetimeDelay(t) ==
    LET delay == IF t.delay > 0 THEN t.delay ELSE t.interval
    IN IF delay = None THEN 0 ELSE delay

\* _start_onetime_task as it would be if it registered no delayed call
start_onetime_unscheduled(ob, o) == ob

start_onetime_task(ob, o) ==
    LET t == ob[o]
    IN [ob EXCEPT ![o] = [t EXCEPT !.orphans = Replaced(t),
                                   !.dc = [kind |-> "once", left |-> OnetimeDelay(t)]]]

\* start_task as it would be if it kept the state a firing at start has set
start_task_keeping_state(ob, tb, id, cbok) ==
    IF ~start_guard(ob, tb, id) THEN ob
    ELSE LET o == tb[id]
             begun == IF ob[o].periodic
                      THEN start_periodic_task(ob, tb, o, cbok)
                      ELSE start_onetime_task(ob, o)
         IN IF StartRaises(ob[o])
            THEN [begun EXCEPT ![o].state = "FAILED"]
            ELSE IF begun[o].state \in {"FAILED", "COMPLETED"}
            THEN [begun EXCEPT ![o].started_at = TRUE]
            ELSE [begun EXCEPT ![o].state = "RUNNING", ![o].started_at = TRUE]

start_task(ob, tb, id, cbok) ==
    IF ~start_guard(ob, tb, id) THEN ob
    ELSE LET o == tb[id]
             begun == IF ob[o].periodic
                      THEN start_periodic_task(ob, tb, o, cbok)
                      ELSE start_onetime_task(ob, o)
         IN IF StartRaises(ob[o])
            THEN [begun EXCEPT ![o].state = "FAILED"]
            ELSE [begun EXCEPT ![o].state = "RUNNING", ![o].started_at = TRUE]

start_ok(ob, tb, id) == start_guard(ob, tb, id) /\ ~StartRaises(ob[tb[id]])

\* ------------------------------------------------------------- add_task
\* add_task's validation as it would be without lines 105-107
AnyRequest(periodic, interval) == TRUE

ValidRequest(periodic, interval) == ~(periodic /\ interval = None)

DefaultInterval(periodic, interval, delay) ==
    IF ~periodic /\ interval = None THEN delay ELSE interval

FreeSlots == {o \in Objs : obj[o].held = "free"}
NewObj == CHOOSE o \in FreeSlots : \A p \in FreeSlots : o <= p

\* the task table and the objects after self.tasks[task_id] = scheduled_task
Inserted(id, periodic, interval, delay, max_runs, plugin_name) ==
    [o \in Objs |->
        IF o = NewObj
        THEN ScheduledTask(id, periodic, DefaultInterval(periodic, interval, delay),
                           delay, max_runs, plugin_name)
        ELSE IF tasks[id] = o THEN [obj[o] EXCEPT !.held = "replaced", !.pure = FALSE]
        ELSE obj[o]]

AddTask(id, periodic, interval, delay, max_runs, plugin_name, auto_start, cbok) ==
    IF ~ValidRequest(periodic, interval)
    THEN /\ last' = Result("add", FALSE, 0, "", "none", 0)
         /\ UNCHANGED <<tasks, obj, loaded_plugins, commands, values, value_names>>
    ELSE /\ FreeSlots # {}
         /\ LET tb == [tasks EXCEPT ![id] = NewObj]
                added == Inserted(id, periodic, interval, delay, max_runs, plugin_name)
                fires == auto_start /\ FiresNow(added[NewObj])
                after == IF auto_start THEN start_task(added, tb, id, cbok) ELSE added
            IN /\ fires /\ cbok => added[NewObj].run_count < MaxRunCount
               /\ tasks' = tb
               /\ obj' = Collect(Touch(after, added,
                                       IF fires /\ ~cbok THEN {} ELSE {NewObj}))
               /\ last' = Result("add", TRUE, NewObj, "", Outcome(fires, cbok), 0)
         /\ UNCHANGED <<loaded_plugins, commands, values, value_names>>

\* ------------------------------------------------------------- start / stop
StartTask(id, cbok) ==
    IF ~start_guard(obj, tasks, id)
    THEN /\ last' = Result("start", FALSE, 0, "", "none", 0)
         /\ UNCHANGED <<tasks, obj, loaded_plugins, commands, values, value_names>>
    ELSE LET o == tasks[id]
             fires == FiresNow(obj[o])
             after == start_task(obj, tasks, id, cbok)
         IN /\ fires /\ cbok => obj[o].run_count < MaxRunCount
            /\ OrphanRoom(after)
            /\ obj' = Collect(Touch(after, obj,
                                    IF obj[o].state = "PENDING" /\ ~(fires /\ ~cbok)
                                    THEN {o} ELSE {}))
            /\ last' = Result("start", start_ok(obj, tasks, id), o, "",
                              Outcome(fires, cbok), 0)
            /\ UNCHANGED <<tasks, loaded_plugins, commands, values, value_names>>

StopTask(id) ==
    /\ obj' = Collect(Touch(stop_task(obj, tasks, id), obj, {}))
    /\ last' = Called("stop", stop_guard(obj, tasks, id), tasks[id])
    /\ UNCHANGED <<tasks, loaded_plugins, commands, values, value_names>>

\* ------------------------------------------------------------- pause / resume
\* pause_task's check as it would be without lines 263-265
pause_guard_running(ob, tb, id) ==
    tb[id] # 0 /\ ob[tb[id]].state = "RUNNING"

pause_guard(ob, tb, id) ==
    tb[id] # 0 /\ ob[tb[id]].periodic /\ ob[tb[id]].state = "RUNNING"

\* pause_task as it would be if it paused every running periodic task
pause_every_task(ob, tb, id) ==
    IF pause_guard(ob, tb, id)
    THEN [o \in Objs |->
            IF ob[o].held = "table" /\ ob[o].periodic /\ ob[o].state = "RUNNING"
            THEN [ob[o] EXCEPT !.lc = IF @.made /\ @.running
                                      THEN [@ EXCEPT !.running = FALSE, !.left = None] ELSE @,
                               !.state = "PAUSED"]
            ELSE ob[o]]
    ELSE ob

pause_task(ob, tb, id) ==
    IF pause_guard(ob, tb, id)
    THEN [ob EXCEPT ![tb[id]] =
            [@ EXCEPT !.lc = IF @.made /\ @.running
                             THEN [@ EXCEPT !.running = FALSE, !.left = None] ELSE @,
                      !.state = "PAUSED"]]
    ELSE ob

resume_guard(ob, tb, id) == tb[id] # 0 /\ ob[tb[id]].state = "PAUSED"

\* LoopingCall.start asserts that it is not running and rejects None
ResumeRaises(t) == t.lc.made /\ (t.lc.running \/ t.interval = None)

resume_ok(ob, tb, id) == resume_guard(ob, tb, id) /\ ~ResumeRaises(ob[tb[id]])

resume_task(ob, tb, id) ==
    IF resume_ok(ob, tb, id)
    THEN [ob EXCEPT ![tb[id]] =
            [@ EXCEPT !.lc = IF @.made
                             THEN [@ EXCEPT !.running = TRUE,
                                            !.ival = ob[tb[id]].interval,
                                            !.left = ob[tb[id]].interval]
                             ELSE @,
                      !.state = "RUNNING"]]
    ELSE ob

PauseTask(id) ==
    /\ obj' = Collect(Touch(pause_task(obj, tasks, id), obj, {}))
    /\ last' = Called("pause", pause_guard(obj, tasks, id), tasks[id])
    /\ UNCHANGED <<tasks, loaded_plugins, commands, values, value_names>>

ResumeTask(id) ==
    /\ obj' = Collect(Touch(resume_task(obj, tasks, id), obj, {}))
    /\ last' = Called("resume", resume_ok(obj, tasks, id), tasks[id])
    /\ UNCHANGED <<tasks, loaded_plugins, commands, values, value_names>>

\* ------------------------------------------------------------- modify_task
modify_task(ob, tb, id, interval, max_runs) ==
    IF tb[id] = 0 THEN ob
    ELSE LET o == tb[id]
             restart == ob[o].state = "RUNNING" /\ interval # None
             paused == IF restart THEN pause_task(ob, tb, id) ELSE ob
             changed == [paused EXCEPT
                            ![o].interval = IF interval # None THEN interval ELSE @,
                            ![o].max_runs = IF max_runs # None THEN max_runs ELSE @]
         IN IF restart
            THEN resume_task([changed EXCEPT ![o].state = "PAUSED"], tb, id)
            ELSE changed

ModifyTask(id, interval, max_runs) ==
    /\ obj' = Collect(Touch(modify_task(obj, tasks, id, interval, max_runs), obj, {}))
    /\ last' = Called("modify", tasks[id] # 0, tasks[id])
    /\ UNCHANGED <<tasks, loaded_plugins, commands, values, value_names>>

\* ------------------------------------------------------------- remove_task
\* the objects after remove_task(id) of every id in ids (how: why they leave)
remove_tasks(ob, tb, ids, how) ==
    [o \in Objs |->
        IF \E id \in ids : tb[id] = o
        THEN [stop_task(ob, tb, ob[o].id)[o] EXCEPT !.held = how, !.pure = FALSE]
        ELSE ob[o]]

RemoveTask(id) ==
    IF tasks[id] = 0
    THEN /\ last' = Result("remove", FALSE, 0, "", "none", 0)
         /\ UNCHANGED <<tasks, obj, loaded_plugins, commands, values, value_names>>
    ELSE /\ obj' = Collect(remove_tasks(obj, tasks, {id}, "removed"))
         /\ tasks' = [tasks EXCEPT ![id] = 0]
         /\ last' = Result("remove", TRUE, tasks[id], "", "none", 0)
         /\ UNCHANGED <<loaded_plugins, commands, values, value_names>>

\* ------------------------------------------------------------- bulk operations
\* remove_plugin_tasks' selection as it would be if it took running tasks only
RunningPluginTaskIds(tb, ob, plugin_name) ==
    {id \in TaskIds : /\ tb[id] # 0
                      /\ ob[tb[id]].plugin_name = plugin_name
                      /\ ob[tb[id]].state = "RUNNING"}

PluginTaskIds(tb, ob, plugin_name) ==
    {id \in TaskIds : tb[id] # 0 /\ ob[tb[id]].plugin_name = plugin_name}

remove_plugin_tasks(ob, tb, plugin_name, how) ==
    remove_tasks(ob, tb, PluginTaskIds(tb, ob, plugin_name), how)

\* the task table as it would be if the removal emptied it
TasksWithoutAny(tb, ids) == [id \in TaskIds |-> 0]

TasksWithout(tb, ids) == [id \in TaskIds |-> IF id \in ids THEN 0 ELSE tb[id]]

RemovePluginTasks(plugin_name) ==
    /\ obj' = Collect(remove_plugin_tasks(obj, tasks, plugin_name, "removed"))
    /\ tasks' = TasksWithout(tasks, PluginTaskIds(tasks, obj, plugin_name))
    /\ last' = Result("remove_plugin_tasks", TRUE, 0, plugin_name, "none",
                      Cardinality(PluginTaskIds(tasks, obj, plugin_name)))
    /\ UNCHANGED <<loaded_plugins, commands, values, value_names>>

stop_all_tasks(ob, tb) ==
    [o \in Objs |->
        IF ob[o].held = "table" /\ ob[o].state \in {"RUNNING", "PAUSED"}
        THEN stop_task(ob, tb, ob[o].id)[o] ELSE ob[o]]

StopAllTasks ==
    /\ obj' = Collect(Touch(stop_all_tasks(obj, tasks), obj, {}))
    /\ last' = Result("stop_all", TRUE, 0, "", "none", 0)
    /\ UNCHANGED <<tasks, loaded_plugins, commands, values, value_names>>

\* ------------------------------------------------------------- the reactor
\* the LoopingCall the object refers to comes due
FireLoop(o, cbok) ==
    /\ LoopRunning(obj[o]) /\ obj[o].lc.left = 0
    /\ cbok => obj[o].run_count < MaxRunCount
    /\ LET called == [obj EXCEPT ![o].lc.left = None]
           after == LoopReturn(execute_task(called, tasks, o, cbok), o)
       IN obj' = Collect(Touch(after, obj, IF cbok THEN {o} ELSE {}))
    /\ last' = Result("fire", TRUE, o, "lc", Outcome(TRUE, cbok), 0)
    /\ UNCHANGED <<tasks, loaded_plugins, commands, values, value_names>>

\* the delayed call the object refers to comes due
FireDelayed(o, cbok) ==
    /\ DelayedActive(obj[o]) /\ obj[o].dc.left = 0
    /\ LET called == [obj EXCEPT ![o].dc.left = None]
           once == obj[o].dc.kind = "once"
           after == IF once
                    THEN [execute_task(called, tasks, o, cbok) EXCEPT ![o].state = "COMPLETED"]
                    ELSE called
       IN /\ once /\ cbok => obj[o].run_count < MaxRunCount
          /\ obj' = Collect(Touch(after, obj, IF once /\ ~cbok THEN {} ELSE {o}))
          /\ last' = Result("fire", TRUE, o, "dc", Outcome(once, cbok), 0)
    /\ UNCHANGED <<tasks, loaded_plugins, commands, values, value_names>>

DropAt(s, k) == [i \in 1..(Len(s) - 1) |-> IF i < k THEN s[i] ELSE s[i + 1]]

\* a timer the object no longer refers to comes due
FireOrphan(o, k, cbok) ==
    /\ k \in 1..Len(obj[o].orphans) /\ obj[o].orphans[k].left = 0
    /\ cbok => obj[o].run_count < MaxRunCount
    /\ LET ran == execute_task(obj, tasks, o, cbok)
           after == IF obj[o].orphans[k].kind = "loop"
                    THEN [ran EXCEPT ![o].orphans =
                            Orphan(DropAt(@, k),
                                   [obj[o].orphans[k] EXCEPT !.left = obj[o].orphans[k].ival])]
                    ELSE [ran EXCEPT ![o].orphans = DropAt(@, k), ![o].state = "COMPLETED"]
       IN obj' = Collect(Touch(after, obj, {}))
    /\ last' = Result("fire", TRUE, o, "orphan", Outcome(TRUE, cbok), 0)
    /\ UNCHANGED <<tasks, loaded_plugins, commands, values, value_names>>

AllTimes == UNION {PendingTimes(obj[o]) : o \in Objs}

Elapse(t) ==
    [t EXCEPT
        !.lc = IF @.made /\ @.running /\ @.left # None THEN [@ EXCEPT !.left = @ - 1] ELSE @,
        !.dc = IF @.kind # "none" /\ @.left # None THEN [@ EXCEPT !.left = @ - 1] ELSE @,
        !.orphans = [k \in 1..Len(@) |-> [@[k] EXCEPT !.left = @ - 1]]]

\* one unit of time passes; no timer is overdue
Tick ==
    /\ AllTimes # {} /\ 0 \notin AllTimes
    /\ obj' = [o \in Objs |-> Elapse(obj[o])]
    /\ last' = Result("tick", TRUE, 0, "", "none", 0)
    /\ UNCHANGED <<tasks, loaded_plugins, commands, values, value_names>>

\* ------------------------------------------------------------- plugin manager
\* plugins/<name>/init.py exists, and exec_module returns
\* load_plugin's check as it would be if a raising init.py did not end the load
LoadableUnlessMissing(plugin_name) == plugin_name # "missing"

Loadable(plugin_name) == plugin_name \in GoodPlugins

\* dir(plugin) lists the attributes in alphabetical order
SortedValueNames == <<"v", "w">>

\* the keys of a dict after self.values[val_name] = ... for every name: a key
\* that is there keeps its place, a new one goes to the end
register_keys(keys, names) ==
    LET IsNew(n) == n \in names /\ \A i \in 1..Len(keys) : keys[i] # n
    IN keys \o SelectSeq(SortedValueNames, IsNew)

\* the keys of a dict after self.values.pop(var_name, None) for every name
unregister_keys(keys, names) ==
    LET Stays(n) == n \notin names
    IN SelectSeq(keys, Stays)

register_plugin_features(map, names, plugin_name) ==
    [n \in DOMAIN map |-> IF n \in names THEN plugin_name ELSE map[n]]

\* _unregister_plugin_features as it would be if it removed the names that
\* are registered to no plugin only
unregister_nothing(map, names) ==
    [n \in DOMAIN map |-> IF n \in names /\ map[n] = NoPlugin THEN NoPlugin ELSE map[n]]

unregister_plugin_features(map, names) ==
    [n \in DOMAIN map |-> IF n \in names THEN NoPlugin ELSE map[n]]

\* load_plugin as it would be without lines 36-38
LoadPluginAgain(plugin_name) ==
    IF ~Loadable(plugin_name)
    THEN /\ last' = Result("load", FALSE, 0, "", "none", 0)
         /\ UNCHANGED <<tasks, obj, loaded_plugins, commands, values, value_names>>
    ELSE /\ loaded_plugins' = loaded_plugins \cup {plugin_name}
         /\ commands' = register_plugin_features(commands, PluginCommands(plugin_name), plugin_name)
         /\ values' = register_plugin_features(values, PluginValues(plugin_name), plugin_name)
         /\ value_names' = register_keys(value_names, PluginValues(plugin_name))
         /\ last' = Result("load", TRUE, 0, plugin_name, "none", 0)
         /\ UNCHANGED <<tasks, obj>>

\* a load that is refused records the plugin when it was loaded already
LoadPlugin(plugin_name) ==
    IF plugin_name \in loaded_plugins \/ ~Loadable(plugin_name)
    THEN /\ last' = Result("load", FALSE, 0,
                           IF plugin_name \in loaded_plugins THEN plugin_name ELSE "",
                           "none", 0)
         /\ UNCHANGED <<tasks, obj, loaded_plugins, commands, values, value_names>>
    ELSE /\ loaded_plugins' = loaded_plugins \cup {plugin_name}
         /\ commands' = register_plugin_features(commands, PluginCommands(plugin_name), plugin_name)
         /\ values' = register_plugin_features(values, PluginValues(plugin_name), plugin_name)
         /\ value_names' = register_keys(value_names, PluginValues(plugin_name))
         /\ last' = Result("load", TRUE, 0, plugin_name, "none", 0)
         /\ UNCHANGED <<tasks, obj>>

\* scheduler: whether the caller passed the scheduler
UnloadPlugin(plugin_name, scheduler) ==
    IF plugin_name \notin loaded_plugins
    THEN /\ last' = Result("unload", FALSE, 0, "", "none", 0)
         /\ UNCHANGED <<tasks, obj, loaded_plugins, commands, values, value_names>>
    ELSE /\ commands' = unregister_plugin_features(commands, PluginCommands(plugin_name))
         /\ values' = unregister_plugin_features(values, PluginValues(plugin_name))
         /\ value_names' = unregister_keys(value_names, PluginValues(plugin_name))
         /\ IF scheduler
            THEN /\ obj' = Collect(remove_plugin_tasks(obj, tasks, plugin_name, "unloaded"))
                 /\ tasks' = TasksWithout(tasks, PluginTaskIds(tasks, obj, plugin_name))
                 /\ last' = Result("unload", TRUE, 0, plugin_name, "scheduler",
                                   Cardinality(PluginTaskIds(tasks, obj, plugin_name)))
            ELSE /\ last' = Result("unload", TRUE, 0, plugin_name, "none", 0)
                 /\ UNCHANGED <<tasks, obj>>
         /\ loaded_plugins' = loaded_plugins \ {plugin_name}

\* execute_command's return value
execute_command(map, command) == map[command] # NoPlugin

\* hok: the handler returns (TRUE) or raises (FALSE).  execute_command calls
\* the handler outside any try block: when the handler raises, so does
\* execute_command, and no value is returned (ok = FALSE, cb = "raise").
\* The handler's own effects are outside the model.
ExecuteCommand(command, hok) ==
    /\ last' = Result("command", execute_command(commands, command) /\ hok, 0,
                      IF execute_command(commands, command) THEN commands[command] ELSE "",
                      Outcome(execute_command(commands, command), hok), 0)
    /\ UNCHANGED <<tasks, obj, loaded_plugins, commands, values, value_names>>

\* the last call raised to its caller instead of returning a result
RaisedToCaller == last.op \in {"command", "privmsg", "values"} /\ last.cb = "raise"

\* ------------------------------------------------------------------ dispatcher
\* Text is a sequence of one-character strings.
MaxLen == 6
Chars == {"!", " ", "'", "\"", "\\", "x"}
Lines == UNION {[1..n -> Chars] : n \in 0..MaxLen}

\* config.command_trigger
Trigger == <<"!">>

\* shlex: whitespace, quotes, escape, escapedquotes of a posix lexer
whitespace == {" "}
quotes == {"'", "\""}
escape == {"\\"}
escapedquotes == {"\""}

\* senders: one well formed (nick!ident@host), one that user.split('!') refuses
Users == {<<"n", "!", "i", "@", "h">>, <<"n", "@", "h">>}

RECURSIVE count(_, _)
count(s, c) ==
    IF s = <<>> THEN 0 ELSE (IF Head(s) = c THEN 1 ELSE 0) + count(Tail(s), c)

find(s, c) == CHOOSE i \in 1..Len(s) : s[i] = c /\ \A j \in 1..(i - 1) : s[j] # c

\* nickname, user_info = user.split('!'); ident, hostname = user_info.split('@')
\* unpack only a list of exactly two parts
split_user(user) ==
    /\ count(user, "!") = 1
    /\ count(SubSeq(user, find(user, "!") + 1, Len(user)), "@") = 1

nickname_of(user) == SubSeq(user, 1, find(user, "!") - 1)

RECURSIVE lstrip(_)
lstrip(s) ==
    IF s # <<>> /\ Head(s) \in whitespace THEN lstrip(Tail(s)) ELSE s

RECURSIVE rstrip(_)
rstrip(s) ==
    IF s # <<>> /\ s[Len(s)] \in whitespace THEN rstrip(SubSeq(s, 1, Len(s) - 1)) ELSE s

strip(s) == rstrip(lstrip(s))

startswith_anything(s, prefix) == TRUE

startswith(s, prefix) ==
    Len(s) >= Len(prefix) /\ SubSeq(s, 1, Len(prefix)) = prefix

\* message[len(trigger):]
after_trigger(message) == SubSeq(message, Len(Trigger) + 1, Len(message))

\* shlex.split(message): a posix lexer with whitespace_split and no
\* commenters, read to the end.  state is " " between tokens, "a" inside a
\* word, a quote character inside a quotation, the escape character after a
\* backslash.  A token is given out when it is not empty or was quoted.
ParseError(error) == [error |-> error, parts |-> <<>>]
Parsed(parts) == [error |-> "", parts |-> parts]

RECURSIVE read_token(_, _, _, _, _, _, _)
read_token(s, i, state, escapedstate, token, quoted, parts) ==
    LET given == IF token # <<>> \/ quoted THEN Append(parts, token) ELSE parts IN
    IF i > Len(s) THEN
        IF state \in quotes THEN ParseError("No closing quotation")
        ELSE IF state \in escape THEN ParseError("No escaped character")
        ELSE Parsed(given)
    ELSE
        LET nextchar == s[i] IN
        IF state = " " THEN
            IF nextchar \in whitespace THEN
                read_token(s, i + 1, " ", escapedstate, <<>>, FALSE, given)
            ELSE IF nextchar \in escape THEN
                read_token(s, i + 1, nextchar, "a", token, quoted, parts)
            ELSE IF nextchar \in quotes THEN
                read_token(s, i + 1, nextchar, escapedstate, token, TRUE, parts)
            ELSE
                read_token(s, i + 1, "a", escapedstate, <<nextchar>>, quoted, parts)
        ELSE IF state \in quotes THEN
            IF nextchar = state THEN
                read_token(s, i + 1, "a", escapedstate, token, TRUE, parts)
            ELSE IF nextchar \in escape /\ state \in escapedquotes THEN
                read_token(s, i + 1, nextchar, state, token, TRUE, parts)
            ELSE
                read_token(s, i + 1, state, escapedstate, Append(token, nextchar), TRUE, parts)
        ELSE IF state \in escape THEN
            \* inside double quotes the backslash escapes only itself and the quote
            LET kept == IF /\ escapedstate \in quotes
                           /\ nextchar # state
                           /\ nextchar # escapedstate
                        THEN Append(token, state) ELSE token IN
            read_token(s, i + 1, escapedstate, escapedstate, Append(kept, nextchar), quoted, parts)
        ELSE
            IF nextchar \in whitespace THEN
                read_token(s, i + 1, " ", escapedstate, <<>>, FALSE, given)
            ELSE IF nextchar \in quotes THEN
                read_token(s, i + 1, nextchar, escapedstate, token, TRUE, parts)
            ELSE IF nextchar \in escape THEN
                read_token(s, i + 1, nextchar, "a", token, quoted, parts)
            ELSE
                read_token(s, i + 1, "a", escapedstate, Append(token, nextchar), quoted, parts)

shlex_reversed(s) ==
    LET split == read_token(s, 1, " ", " ", <<>>, FALSE, <<>>) IN
    [split EXCEPT !.parts = [i \in 1..Len(split.parts) |->
                                split.parts[Len(split.parts) + 1 - i]]]

shlex_split(s) == read_token(s, 1, " ", " ", <<>>, FALSE, <<>>)

\* send_message(target, message, nickname): one msg to target, the text
\* prefixed with the nickname (the notices hold no line break)
send_message(target, message, prefix_nick) ==
    <<[target |-> target, prefix_nick |-> prefix_nick, message |-> message]>>

any_error(error) == TRUE

\* "closing quotation" in str(e).lower()
closing_quotation(error) == error = "No closing quotation"

no_error_replies(error, target, nickname) == <<>>

\* the except branch of _handle_command
parse_error_replies(error, target, nickname) ==
    IF closing_quotation(error)
    THEN send_message(target, "Missing closing quotation mark", nickname)
    ELSE <<>>

no_replies(success, target, nickname) == <<>>

\* the replies after execute_command has returned success
not_found_replies(success, target, nickname) ==
    IF ~success THEN send_message(target, "Command not found", nickname) ELSE <<>>

\* the text _handle_command parses: the trigger is cut off only outside a
\* private exchange
parsed_text(message, is_pm) == IF ~is_pm THEN after_trigger(message) ELSE message

\* the key of self.commands a token names, "" for a token that is no key
command_key(map, token) ==
    IF Len(token) = 1 /\ token[1] \in DOMAIN map THEN token[1] ELSE ""

\* what handling one line leaves behind: whether _handle_command ran
\* (handled), whether execute_command was called (dispatched) and with what,
\* the handler's plugin (name) and outcome (cb), and the messages sent.
\* ok is execute_command's returned success.
Handled(ok, handled, dispatched, command, args, name, cb, replies, is_pm, message) ==
    [op |-> "privmsg", ok |-> ok, o |-> 0, name |-> name, cb |-> cb, n |-> 0,
     handled |-> handled, dispatched |-> dispatched, command |-> command,
     args |-> args, replies |-> replies, is_pm |-> is_pm, message |-> message]

Dropped(is_pm, message) ==
    Handled(FALSE, FALSE, FALSE, <<>>, <<>>, "", "none", <<>>, is_pm, message)

handle_command(map, target, nickname, message, is_pm, hok, line) ==
    LET split == shlex_split(parsed_text(message, is_pm))
        parts == split.parts
        key == command_key(map, parts[1])
        found == key # "" /\ execute_command(map, key)
    IN  IF split.error # "" THEN
            Handled(FALSE, TRUE, FALSE, <<>>, <<>>, "", "none",
                    parse_error_replies(split.error, target, nickname), is_pm, line)
        ELSE IF parts = <<>> THEN
            Handled(FALSE, TRUE, FALSE, <<>>, <<>>, "", "none", <<>>, is_pm, line)
        ELSE IF found /\ ~hok THEN
            \* the handler's exception leaves _handle_command before any reply
            Handled(FALSE, TRUE, TRUE, parts[1], Tail(parts), map[key], "raise",
                    <<>>, is_pm, line)
        ELSE
            Handled(found, TRUE, TRUE, parts[1], Tail(parts),
                    IF found THEN map[key] ELSE "", Outcome(found, TRUE),
                    not_found_replies(found, target, nickname), is_pm, line)

\* privmsg(user, channel, message), is_pm standing for channel == self.nickname
privmsg(map, user, is_pm, line, hok) ==
    LET message == strip(line)
        nickname == nickname_of(user)
        target == IF is_pm THEN nickname ELSE <<"#">>
    IN  IF ~split_user(user) THEN Dropped(is_pm, line)
        ELSE IF message = <<>> THEN Dropped(is_pm, line)
        ELSE IF is_pm \/ startswith(message, Trigger)
             THEN handle_command(map, target, nickname, message, is_pm, hok, line)
             ELSE Dropped(is_pm, line)

Privmsg(user, is_pm, line, hok) ==
    /\ last' = privmsg(commands, user, is_pm, line, hok)
    /\ UNCHANGED <<tasks, obj, loaded_plugins, commands, values, value_names>>

\* ---------------------------------------------------------------- parse_values
MaxMessage == 4
MessageChars == {"$", "v", "w", "a"}
Messages == UNION {[1..n -> MessageChars] : n \in 0..MaxMessage}

\* the strings a value function may return
ValueTexts == {<<>>, <<"a">>, <<"v">>, <<"$", "w">>, <<"$", "v">>}

\* f"${val_name}"
placeholder(val_name) == <<"$", val_name>>

\* placeholder in message
occurs(sub, message) ==
    \E i \in 1..(Len(message) - Len(sub) + 1) :
        SubSeq(message, i, i + Len(sub) - 1) = sub

\* message.replace(placeholder, value) as it would be with count=1
RECURSIVE replace_first(_, _, _)
replace_first(message, sub, value) ==
    IF message = <<>> THEN <<>>
    ELSE IF Len(message) >= Len(sub) /\ SubSeq(message, 1, Len(sub)) = sub
    THEN value \o SubSeq(message, Len(sub) + 1, Len(message))
    ELSE <<Head(message)>> \o replace_first(Tail(message), sub, value)

\* message.replace(placeholder, value): every occurrence, from the left
RECURSIVE replace(_, _, _)
replace(message, sub, value) ==
    IF message = <<>> THEN <<>>
    ELSE IF Len(message) >= Len(sub) /\ SubSeq(message, 1, Len(sub)) = sub
    THEN value \o replace(SubSeq(message, Len(sub) + 1, Len(message)), sub, value)
    ELSE <<Head(message)>> \o replace(Tail(message), sub, value)

\* one turn of the loop of parse_values
Turn(val_name, before, invoked, value, after) ==
    [name |-> val_name, before |-> before, invoked |-> invoked,
     value |-> value, after |-> after]

\* parse_values over the keys of self.values in their order.  value: what
\* each value function returns; raising: the name whose function raises ("":
\* none).  An exception of val_func leaves parse_values at once.
RECURSIVE parse_values(_, _, _, _, _)
parse_values(keys, message, value, raising, turns) ==
    IF keys = <<>>
    THEN [message |-> message, turns |-> turns, raised |-> FALSE]
    ELSE LET val_name == Head(keys)
             found == occurs(placeholder(val_name), message)
         IN IF found /\ val_name = raising
            THEN [message |-> message, raised |-> TRUE,
                  turns |-> Append(turns, Turn(val_name, message, TRUE, <<>>, message))]
            ELSE IF found
            THEN parse_values(Tail(keys),
                              replace(message, placeholder(val_name), value[val_name]),
                              value, raising,
                              Append(turns,
                                     Turn(val_name, message, TRUE, value[val_name],
                                          replace(message, placeholder(val_name),
                                                  value[val_name]))))
            ELSE parse_values(Tail(keys), message, value, raising,
                              Append(turns, Turn(val_name, message, FALSE, <<>>, message)))

\* ok: parse_values returned; result: what it returned; turns: the turns of
\* its loop; cb: whether a value function was called and how that went
ParseValues(message, value, raising) ==
    LET parsed == parse_values(value_names, message, value, raising, <<>>)
        called == \E k \in 1..Len(parsed.turns) : parsed.turns[k].invoked
    IN /\ last' = [op |-> "values", ok |-> ~parsed.raised, o |-> 0, name |-> "",
                   cb |-> IF parsed.raised THEN "raise" ELSE Outcome(called, TRUE),
                   n |-> 0, message |-> message, result |-> parsed.message,
                   turns |-> parsed.turns]
       /\ UNCHANGED <<tasks, obj, loaded_plugins, commands, values, value_names>>

Init ==
    /\ tasks = [id \in TaskIds |-> 0]
    /\ obj = [o \in Objs |-> FreeObj]
    /\ loaded_plugins = {}
    /\ commands = [c \in CommandNames |-> NoPlugin]
    /\ values = [v \in ValueNames |-> NoPlugin]
    /\ value_names = <<>>
    /\ last = Result("init", TRUE, 0, "", "none", 0)

\* ------------------------------------------------------------- specifications
\* A call that is refused, the dispatch of a command, the handling of a line
\* and a value substitution change nothing but last: whatever can follow them
\* can follow the state before them, so a behaviour is not continued past them.
Live == (last.ok /\ last.op \notin {"command", "privmsg", "values"}) \/ last.o # 0

\* One task at a time, with every kind of request: the life of a task.
TaskNext ==
    \/ /\ Live /\ FreeSlots = Objs
       /\ \E periodic \in BOOLEAN, interval \in {None} \cup Intervals,
             delay \in Delays, max_runs \in {None} \cup RunBounds,
             auto_start \in BOOLEAN, cbok \in BOOLEAN :
               AddTask(1, periodic, interval, delay, max_runs, NoPlugin, auto_start, cbok)
    \/ Live /\ \E id \in TaskIds, cbok \in BOOLEAN : StartTask(id, cbok)
    \/ Live /\ \E id \in TaskIds : StopTask(id)
    \/ Live /\ \E id \in TaskIds : PauseTask(id)
    \/ Live /\ \E id \in TaskIds : ResumeTask(id)
    \/ Live /\ \E id \in TaskIds, interval \in {None} \cup Intervals,
          max_runs \in {None} \cup RunBounds : ModifyTask(id, interval, max_runs)
    \/ Live /\ \E id \in TaskIds : RemoveTask(id)
    \/ Live /\ \E o \in Objs, cbok \in BOOLEAN : FireLoop(o, cbok)
    \/ Live /\ \E o \in Objs, cbok \in BOOLEAN : FireDelayed(o, cbok)
    \/ Live /\ \E o \in Objs, k \in 1..MaxOrphans, cbok \in BOOLEAN : FireOrphan(o, k, cbok)
    \/ Live /\ Tick

Spec == Init /\ [][TaskNext]_vars

\* Plugins and their tasks: several tasks at a time, of the simplest kinds
\* (periodic with interval 1, or one-time without delay), each started at most
\* once and run successfully at most once.  _generate_id draws an id that is
\* not in use, and the scheduler is only asked what it does not refuse; the
\* calls it refuses are part of TaskNext.
Unstarted(id) ==
    IF tasks[id] = 0 THEN FALSE
    ELSE obj[tasks[id]].state \in {"PENDING", "RUNNING", "COMPLETED"}
Fresh(o, cbok) == cbok => obj[o].run_count = 0

PluginNext ==
    \/ Live /\ \E id \in TaskIds, periodic \in BOOLEAN,
                  plugin_name \in {NoPlugin, "A"},
                  auto_start \in BOOLEAN, cbok \in BOOLEAN :
            tasks[id] = 0 /\ AddTask(id, periodic, IF periodic THEN 1 ELSE None, 0, None,
                    plugin_name, auto_start, cbok)
    \/ Live /\ \E id \in TaskIds, cbok \in BOOLEAN :
            Unstarted(id) /\ start_guard(obj, tasks, id) /\ StartTask(id, cbok)
    \/ Live /\ \E id \in TaskIds : stop_guard(obj, tasks, id) /\ StopTask(id)
    \/ Live /\ \E id \in TaskIds : pause_guard(obj, tasks, id) /\ PauseTask(id)
    \/ Live /\ \E id \in TaskIds : tasks[id] # 0 /\ RemoveTask(id)
    \/ Live /\ \E o \in Objs, cbok \in BOOLEAN : Fresh(o, cbok) /\ FireLoop(o, cbok)
    \/ Live /\ \E o \in Objs, cbok \in BOOLEAN : Fresh(o, cbok) /\ FireDelayed(o, cbok)
    \/ Live /\ Tick
    \/ Live /\ \E plugin_name \in PluginNames : LoadPlugin(plugin_name)
    \/ Live /\ \E plugin_name \in PluginNames, scheduler \in BOOLEAN :
            UnloadPlugin(plugin_name, scheduler)
    \/ Live /\ \E command \in CommandNames, hok \in BOOLEAN : ExecuteCommand(command, hok)

PluginSpec == Init /\ [][PluginNext]_vars

\* the dispatcher over a registry in which plugin A comes and goes
LineNext ==
    \/ Live /\ LoadPlugin("A")
    \/ Live /\ UnloadPlugin("A", FALSE)
    \/ Live /\ \E user \in Users, is_pm \in BOOLEAN, line \in Lines, hok \in BOOLEAN :
           Privmsg(user, is_pm, line, hok)

LineSpec == Init /\ [][LineNext]_vars

\* Tasks of several owners and the operations on all of them at once: tasks of
\* the simplest kinds, run successfully at most once, and no call the scheduler
\* refuses.  Ids are interchangeable: _generate_id draws the free id that
\* numbers the object it is given to.
Owners == {NoPlugin, "A", "B"}

BulkNext ==
    \/ Live /\ \E id \in TaskIds, periodic \in BOOLEAN, plugin_name \in {NoPlugin, "A"},
                  auto_start \in BOOLEAN, cbok \in BOOLEAN :
            FreeSlots # {} /\ id = NewObj /\ AddTask(id, periodic, IF periodic THEN 1 ELSE None, 0, None,
                                     plugin_name, auto_start, cbok)
    \/ Live /\ \E id \in TaskIds, cbok \in BOOLEAN :
            start_guard(obj, tasks, id) /\ StartTask(id, cbok)
    \/ Live /\ \E id \in TaskIds : pause_guard(obj, tasks, id) /\ PauseTask(id)
    \/ Live /\ \E o \in Objs, cbok \in BOOLEAN : Fresh(o, cbok) /\ FireLoop(o, cbok)
    \/ Live /\ \E o \in Objs, cbok \in BOOLEAN : Fresh(o, cbok) /\ FireDelayed(o, cbok)
    \/ Live /\ \E o \in Objs, k \in 1..MaxOrphans, cbok \in BOOLEAN :
            Fresh(o, cbok) /\ FireOrphan(o, k, cbok)
    \/ Live /\ Tick
    \/ Live /\ \E plugin_name \in Owners : RemovePluginTasks(plugin_name)
    \/ Live /\ StopAllTasks

BulkSpec == Init /\ [][BulkNext]_vars

\* Two tasks side by side and every call on one of them: periodic tasks of
\* interval 1 and one-time tasks without delay, run successfully at most once.
\* _generate_id draws an id that no task has or had: the number of the object.
PairNext ==
    \/ Live /\ \E id \in TaskIds, periodic \in BOOLEAN, max_runs \in {None, 1},
                  auto_start \in BOOLEAN, cbok \in BOOLEAN :
            FreeSlots # {} /\ id = NewObj
            /\ AddTask(id, periodic, IF periodic THEN 1 ELSE None, 0, max_runs,
                       NoPlugin, auto_start, cbok)
    \/ Live /\ \E id \in TaskIds, cbok \in BOOLEAN :
            start_guard(obj, tasks, id) /\ StartTask(id, cbok)
    \/ Live /\ \E id \in TaskIds : stop_guard(obj, tasks, id) /\ StopTask(id)
    \/ Live /\ \E id \in TaskIds : pause_guard(obj, tasks, id) /\ PauseTask(id)
    \/ Live /\ \E id \in TaskIds : resume_guard(obj, tasks, id) /\ ResumeTask(id)
    \/ Live /\ \E id \in TaskIds, interval \in {None, 1} :
            tasks[id] # 0 /\ ModifyTask(id, interval, None)
    \/ Live /\ \E id \in TaskIds : tasks[id] # 0 /\ RemoveTask(id)
    \/ Live /\ \E o \in Objs, cbok \in BOOLEAN : Fresh(o, cbok) /\ FireLoop(o, cbok)
    \/ Live /\ \E o \in Objs, cbok \in BOOLEAN : Fresh(o, cbok) /\ FireDelayed(o, cbok)
    \/ Live /\ \E o \in Objs, k \in 1..MaxOrphans, cbok \in BOOLEAN :
            Fresh(o, cbok) /\ FireOrphan(o, k, cbok)
    \/ Live /\ Tick

PairSpec == Init /\ [][PairNext]_vars

\* The life of a one-time task under a reactor that runs: time passes while no
\* delayed call is due, and a delayed call that is due is called.  Only calls
\* the scheduler does not refuse, so that every behaviour goes on.
OnetimeNext ==
    \/ /\ FreeSlots = Objs
       /\ \E interval \in {None} \cup Intervals, delay \in Delays,
             max_runs \in {None} \cup RunBounds,
             auto_start \in BOOLEAN, cbok \in BOOLEAN :
               AddTask(1, FALSE, interval, delay, max_runs, NoPlugin, auto_start, cbok)
    \/ \E id \in TaskIds, cbok \in BOOLEAN :
            start_guard(obj, tasks, id) /\ StartTask(id, cbok)
    \/ \E id \in TaskIds : stop_guard(obj, tasks, id) /\ StopTask(id)
    \/ \E id \in TaskIds, interval \in {None} \cup Intervals :
            tasks[id] # 0 /\ ModifyTask(id, interval, None)
    \/ \E id \in TaskIds : tasks[id] # 0 /\ RemoveTask(id)
    \/ \E o \in Objs, cbok \in BOOLEAN : FireDelayed(o, cbok)
    \/ Tick

OnetimeSpec ==
    /\ Init /\ [][OnetimeNext]_vars
    /\ WF_vars(Tick)
    /\ WF_vars(\E o \in Objs, cbok \in BOOLEAN : FireDelayed(o, cbok))

\* value substitution over a registry in which the plugins come and go
ValueNext ==
    \/ Live /\ \E plugin_name \in GoodPlugins : LoadPlugin(plugin_name)
    \/ Live /\ \E plugin_name \in GoodPlugins : UnloadPlugin(plugin_name, FALSE)
    \/ Live /\ \E message \in Messages, value \in [ValueNames -> ValueTexts],
                  raising \in {""} \cup ValueNames :
            ParseValues(message, value, raising)

ValueSpec == Init /\ [][ValueNext]_vars

\* Ids as _generate_id draws them: eight hexadecimal digits of a random uuid,
\* compared with nothing, so any id of the id space, the keys of the task
\* table included.  Tasks of the simplest kinds, added and removed.
IdNext ==
    \/ Live /\ \E id \in TaskIds, periodic \in BOOLEAN,
                  auto_start \in BOOLEAN, cbok \in BOOLEAN :
            FreeSlots # {} /\ AddTask(id, periodic, IF periodic THEN 1 ELSE None, 0, None,
                                     NoPlugin, auto_start, cbok)
    \/ Live /\ \E id \in TaskIds, cbok \in BOOLEAN :
            start_guard(obj, tasks, id) /\ StartTask(id, cbok)
    \/ Live /\ \E id \in TaskIds : tasks[id] # 0 /\ RemoveTask(id)
    \/ Live /\ \E o \in Objs, cbok \in BOOLEAN : Fresh(o, cbok) /\ FireLoop(o, cbok)
    \/ Live /\ \E o \in Objs, cbok \in BOOLEAN : Fresh(o, cbok) /\ FireDelayed(o, cbok)
    \/ Live /\ Tick

IdSpec == Init /\ [][IdNext]_vars

\* ------------------------------------------------------------- properties
\* the objects that are values of TaskScheduler.tasks (what list_tasks returns)
Listed == {o \in Objs : obj[o].held = "table"}

\* C1: after unload_plugin(ext, scheduler) has succeeded, no task owned by ext
\* is in the task table, and execute_command finds none of the command names
\* ext exported.
C1_UnloadRemovesTasksAndCommands ==
    (last.op = "unload" /\ last.ok /\ last.cb = "scheduler") =>
        /\ \A id \in TaskIds :
              tasks[id] # 0 => obj[tasks[id]].plugin_name # last.name
        /\ \A o \in Listed : obj[o].plugin_name # last.name
        /\ \A c \in PluginCommands(last.name) : ~execute_command(commands, c)
        /\ last.name \notin loaded_plugins

\* C1 happens: a loaded plugin that owned two tasks has been unloaded
C1_UnloadedOwnerOfTwoTasks ==
    last.op = "unload" /\ last.ok /\ last.cb = "scheduler" /\ last.n = 2

\* C2: once unload_plugin(ext, scheduler) has returned, the callback of a task
\* ext owned is not invoked any more, whatever state the task was in.
C2_NoFiringAfterUnload ==
    ~(last.op = "fire" /\ last.cb # "none" /\ obj[last.o].held = "unloaded")

\* C3: a periodic task with max_runs = N that is only added, started and fired
\* successfully never runs more than N times, and is COMPLETED as soon as it has
\* run N times.
C3_CompletedAfterMaxRuns ==
    \A o \in Listed :
        (obj[o].pure /\ obj[o].periodic /\ obj[o].max_runs # None) =>
            /\ obj[o].run_count <= obj[o].max_runs
            /\ obj[o].run_count = obj[o].max_runs => obj[o].state = "COMPLETED"

\* C4: when the callback of a task has raised during a firing (at start or
\* from a timer), the task is FAILED once the firing has finished.
C4_RaiseLeavesFailed ==
    (last.cb = "raise" /\ obj[last.o].held = "table") =>
        obj[last.o].state = "FAILED"

\* C5: every task in state RUNNING has exactly one timer registered that
\* invokes its callback.
C5_OneTimerWhileRunning ==
    \A o \in Listed :
        obj[o].state = "RUNNING" => CallbackTimers(obj[o]) = 1

\* C6: after stop_task has succeeded the task is STOPPED and none of its
\* timers is registered any more.
C6_StopLeavesNoTimer ==
    (last.op = "stop" /\ last.ok) =>
        /\ obj[last.o].state = "STOPPED"
        /\ CallbackTimers(obj[last.o]) = 0

\* C7: remove_task of a known id succeeds and deletes the record, the
\* callback of a task is not invoked once remove_task has removed the task, and
\* remove_task of an unknown id fails and changes nothing.
C7_NoFiringAfterRemove ==
    [][/\ \A o \in Objs :
             obj[o].held = "removed" =>
                 ~(last'.op = "fire" /\ last'.o = o /\ last'.cb # "none")
       /\ \A id \in TaskIds :
             RemoveTask(id) =>
                 IF tasks[id] = 0
                 THEN ~last'.ok /\ tasks' = tasks /\ obj' = obj
                 ELSE last'.ok /\ tasks'[id] = 0]_vars

\* C8: when the callback raises in a firing of a periodic task's LoopingCall
\* (from the timer or at start), the LoopingCall stays running with its next
\* call one interval ahead; a periodic task that is FAILED always has a timer
\* that will invoke its callback.
C8_FailedFiringKeepsTimer ==
    /\ (last.op = "fire" /\ last.name = "lc" /\ last.cb = "raise") =>
          /\ LoopRunning(obj[last.o])
          /\ obj[last.o].lc.left = obj[last.o].lc.ival
    /\ (last.op \in {"add", "start"} /\ last.cb = "raise") =>
          /\ LoopRunning(obj[last.o])
          /\ obj[last.o].lc.left = obj[last.o].lc.ival
    /\ \A o \in Objs :
          (obj[o].held # "free" /\ obj[o].periodic /\ obj[o].state = "FAILED") =>
              CallbackTimers(obj[o]) >= 1

\* C8 happens: the callback of a RUNNING periodic task raised when its
\* LoopingCall fired
C8_LoopFiringRaised ==
    /\ last.op = "fire" /\ last.name = "lc" /\ last.cb = "raise"
    /\ obj[last.o].held = "table" /\ obj[last.o].state = "FAILED"

\* C9: pause_task of a RUNNING periodic task and the resume_task after it
\* succeed, the callback of a task is not invoked while the task is PAUSED, and
\* after resume_task the next call is one interval ahead.
C9_PauseResume ==
    [][/\ \A o \in Listed :
             obj[o].state = "PAUSED" =>
                 ~(last'.op = "fire" /\ last'.o = o /\ last'.cb # "none")
       /\ \A id \in TaskIds :
             (pause_guard(obj, tasks, id) /\ PauseTask(id)) =>
                 last'.ok /\ obj'[tasks[id]].state = "PAUSED"
       /\ \A id \in TaskIds :
             (resume_guard(obj, tasks, id) /\ obj[tasks[id]].periodic /\ ResumeTask(id)) =>
                 /\ last'.ok /\ obj'[tasks[id]].state = "RUNNING"
                 /\ obj'[tasks[id]].lc.made =>
                       obj'[tasks[id]].lc.left = obj'[tasks[id]].interval]_vars

\* C10: add_task with periodic = True and no interval returns no id, adds no
\* record and registers no timer, whatever the other arguments are.
C10_PeriodicWithoutIntervalFails ==
    [][\A id \in TaskIds, delay \in Delays, max_runs \in {None} \cup RunBounds,
          auto_start \in BOOLEAN, cbok \in BOOLEAN :
            AddTask(id, TRUE, None, delay, max_runs, NoPlugin, auto_start, cbok) =>
                /\ ~last'.ok /\ last'.o = 0
                /\ tasks' = tasks /\ obj' = obj]_vars

\* C10 happens: add_task has refused a request
C10_AddRefused == last.op = "add" /\ ~last.ok

\* C11: a task add_task has added without auto_start is PENDING, and a task is
\* RUNNING whenever start_task has returned True, for periodic and one-time
\* tasks and every interval, delay and max_runs.
C11_PendingThenRunning ==
    [][/\ last'.op = "add" =>
             \A id \in TaskIds, periodic \in BOOLEAN, interval \in {None} \cup Intervals,
                delay \in Delays, max_runs \in {None} \cup RunBounds, cbok \in BOOLEAN :
                  (/\ ~(periodic /\ interval = None)
                   /\ AddTask(id, periodic, interval, delay, max_runs, NoPlugin, FALSE, cbok)) =>
                      /\ last'.ok /\ tasks'[id] # 0
                      /\ obj'[tasks'[id]].state = "PENDING"
                      /\ CallbackTimers(obj'[tasks'[id]]) = 0
       /\ last'.op = "start" =>
             \A id \in TaskIds, cbok \in BOOLEAN :
                  (StartTask(id, cbok) /\ last'.ok) =>
                      obj'[tasks[id]].state = "RUNNING"]_vars

\* C11 happens: start_task has returned True although the callback raised in
\* the firing at start
C11_StartedWithRaise ==
    last.op = "start" /\ last.ok /\ last.cb = "raise" /\ obj[last.o].held = "table"

\* the state of the task with this id ("" when the id is unknown)
StateOf(id) == IF tasks[id] = 0 THEN "" ELSE obj[tasks[id]].state

\* C12: stop_task returns False and changes nothing when the id is unknown or
\* the task is not RUNNING or PAUSED (so a stop after a stop fails and the task
\* stays STOPPED); otherwise it returns True and the task is STOPPED.
C12_StopRefusedUnlessActive ==
    [][last'.op = "stop" =>
          \A id \in TaskIds :
              StopTask(id) =>
                  IF StateOf(id) \in {"RUNNING", "PAUSED"}
                  THEN last'.ok /\ obj'[tasks[id]].state = "STOPPED"
                  ELSE ~last'.ok /\ obj' = obj /\ tasks' = tasks]_vars

\* C12 happens: stop_task has returned False while the task is STOPPED
C12_StopRefusedOnStopped ==
    last.op = "stop" /\ ~last.ok /\ \E o \in Listed : obj[o].state = "STOPPED"

\* C13: start_task returns False and changes nothing when the id is unknown or
\* the task is RUNNING or COMPLETED; from PENDING, PAUSED, STOPPED and FAILED it
\* returns True, the task is RUNNING and started_at is set.
C13_StartRefusedOrRunning ==
    [][last'.op = "start" =>
          \A id \in TaskIds, cbok \in BOOLEAN :
              StartTask(id, cbok) =>
                  IF StateOf(id) \in {"PENDING", "PAUSED", "STOPPED", "FAILED"}
                  THEN /\ last'.ok
                       /\ obj'[tasks[id]].state = "RUNNING"
                       /\ obj'[tasks[id]].started_at
                  ELSE ~last'.ok /\ obj' = obj /\ tasks' = tasks]_vars

\* C13 happens: start_task has restarted a task that had FAILED
C13_RestartedFromFailed ==
    last.op = "start" /\ last.ok /\ Len(obj[last.o].orphans) > 0

\* a one-time task that start_task (or add_task with auto_start) has just started
JustStartedOnetime(o) ==
    /\ last.op \in {"start", "add"} /\ last.ok /\ last.o = o
    /\ obj[o].held = "table" /\ ~obj[o].periodic /\ obj[o].state = "RUNNING"

\* C14 (as the code has it): a successful start of a one-time task registers
\* exactly one single-shot timer, due after delay if delay > 0 and after
\* interval otherwise.
C14_OnetimeDelayThenInterval ==
    \A o \in Objs :
        JustStartedOnetime(o) =>
            /\ obj[o].dc.kind = "once"
            /\ obj[o].dc.left = IF obj[o].delay > 0 THEN obj[o].delay ELSE obj[o].interval
            /\ CallbackTimers(obj[o]) = 1

\* C14 happens: a one-time task whose interval is larger than its positive
\* delay has been started
C14_StartedWithDelayBelowInterval ==
    \E o \in Objs :
        JustStartedOnetime(o) /\ obj[o].delay > 0 /\ obj[o].interval > obj[o].delay

\* C14 (as stated): a successful start of a one-time task registers exactly one
\* single-shot timer, due after max(delay, interval, 0).
C14_OnetimeMaxOfDelayAndInterval ==
    \A o \in Objs :
        JustStartedOnetime(o) =>
            /\ obj[o].dc.kind = "once"
            /\ obj[o].dc.left >= obj[o].delay
            /\ obj[o].dc.left >= obj[o].interval
            /\ obj[o].dc.left >= 0
            /\ obj[o].dc.left \in {obj[o].delay, obj[o].interval, 0}
            /\ CallbackTimers(obj[o]) = 1

\* C15: after a successful start of a periodic task with delay > 0 the first
\* call of the callback is due delay time units later (not earlier, not
\* later), and the calls after it are one interval apart.
C15_DelayDefersFirstFiring ==
    \A o \in Objs :
        (/\ last.op \in {"start", "add"} /\ last.ok /\ last.o = o
         /\ obj[o].held = "table" /\ obj[o].periodic /\ obj[o].delay > 0
         /\ obj[o].state = "RUNNING") =>
            /\ LoopRunning(obj[o])
            /\ obj[o].lc.left = obj[o].delay
            /\ obj[o].lc.ival = obj[o].interval

\* whether the task with this id is periodic (FALSE when the id is unknown)
PeriodicOf(id) == IF tasks[id] = 0 THEN FALSE ELSE obj[tasks[id]].periodic

\* C16: pause_task returns True only for a periodic task that is RUNNING, and
\* then leaves run_count and last_run as they were; resume_task returns True
\* only for a task that is PAUSED; in every other case they return False and
\* change nothing.
C16_PauseResumeRefused ==
    [][/\ last'.op = "pause" =>
             \A id \in TaskIds :
                 PauseTask(id) =>
                     IF PeriodicOf(id) /\ StateOf(id) = "RUNNING"
                     THEN /\ last'.ok
                          /\ obj'[tasks[id]].state = "PAUSED"
                          /\ obj'[tasks[id]].run_count = obj[tasks[id]].run_count
                          /\ obj'[tasks[id]].last_run = obj[tasks[id]].last_run
                     ELSE ~last'.ok /\ obj' = obj /\ tasks' = tasks
       /\ last'.op = "resume" =>
             \A id \in TaskIds :
                 ResumeTask(id) =>
                     IF StateOf(id) = "PAUSED"
                     THEN last'.ok => obj'[tasks[id]].state = "RUNNING"
                     ELSE ~last'.ok /\ obj' = obj /\ tasks' = tasks]_vars

\* C16 happens: pause_task has returned False while a one-time task is RUNNING
C16_PauseRefusedForOnetime ==
    /\ last.op = "pause" /\ ~last.ok
    /\ \E o \in Listed : ~obj[o].periodic /\ obj[o].state = "RUNNING"

\* C17: modify_task(id, interval = x) of a RUNNING periodic task returns True,
\* leaves the task RUNNING with interval x, and re-registers its timer: from
\* then on the only timer that invokes the callback is one that fires every x.
C17_ModifyReschedules ==
    [][last'.op = "modify" =>
          \A id \in TaskIds, x \in Intervals, max_runs \in {None} \cup RunBounds :
              (/\ StateOf(id) = "RUNNING" /\ PeriodicOf(id)
               /\ ModifyTask(id, x, max_runs)) =>
                  /\ last'.ok
                  /\ obj'[tasks[id]].state = "RUNNING"
                  /\ obj'[tasks[id]].interval = x
                  /\ LoopRunning(obj'[tasks[id]])
                  /\ obj'[tasks[id]].lc.ival = x
                  /\ obj'[tasks[id]].lc.left = x
                  /\ CallbackTimers(obj'[tasks[id]]) = 1]_vars

\* the ids of the tasks this plugin owns
OwnedBy(plugin_name) ==
    {id \in TaskIds : IF tasks[id] = 0 THEN FALSE
                      ELSE obj[tasks[id]].plugin_name = plugin_name}

\* C18: remove_plugin_tasks(owner) removes from the task table exactly the
\* tasks whose plugin_name is owner, whatever their state, returns their
\* number, and leaves the tasks of every other owner and the unowned tasks as
\* they were (record, state, counters and timers).
C18_RemovesExactlyOwned ==
    [][last'.op = "remove_plugin_tasks" =>
          \A plugin_name \in Owners :
              RemovePluginTasks(plugin_name) =>
                  /\ last'.n = Cardinality(OwnedBy(plugin_name))
                  /\ \A id \in TaskIds :
                        tasks'[id] = IF id \in OwnedBy(plugin_name) THEN 0 ELSE tasks[id]
                  /\ \A o \in Listed :
                        obj[o].plugin_name # plugin_name => obj'[o] = obj[o]]_vars

\* C18 happens: the one task of an owner has been removed while a task of
\* another owner is in the table
C18_RemovedOneOfTwo ==
    last.op = "remove_plugin_tasks" /\ last.n = 1 /\ Listed # {}

\* C19: after stop_all_tasks every task that was RUNNING or PAUSED is STOPPED
\* and has no timer left that invokes its callback, every other task has kept
\* its state, and no record has been removed.
C19_StopAllStopsEverything ==
    [][last'.op = "stop_all" =>
          (StopAllTasks =>
              /\ tasks' = tasks
              /\ \A o \in Listed :
                    IF obj[o].state \in {"RUNNING", "PAUSED"}
                    THEN obj'[o].state = "STOPPED" /\ CallbackTimers(obj'[o]) = 0
                    ELSE obj'[o] = obj[o])]_vars

\* C20: load_plugin of a plugin that is loaded returns False and leaves
\* loaded_plugins, commands and values as they were: the plugin stays loaded,
\* and every name it registered stays registered to the same handler.
C20_SecondLoadRefused ==
    [][last'.op = "load" =>
          \A plugin_name \in PluginNames :
              (plugin_name \in loaded_plugins /\ LoadPlugin(plugin_name)) =>
                  /\ ~last'.ok
                  /\ loaded_plugins' = loaded_plugins
                  /\ commands' = commands /\ values' = values
                  /\ tasks' = tasks /\ obj' = obj]_vars

\* C20 happens: the load of a loaded plugin has been refused while a command it
\* exports is registered to another plugin that was loaded after it
C20_LoadedTwice ==
    /\ last.op = "load" /\ ~last.ok /\ last.name \in loaded_plugins
    /\ \E c \in PluginCommands(last.name) : commands[c] \notin {NoPlugin, last.name}

\* C21: load_plugin of a plugin whose init.py is missing or raises returns
\* False; afterwards the plugin is not in loaded_plugins, and commands and
\* values are what they were.
C21_FailedLoadChangesNothing ==
    [][last'.op = "load" =>
          \A plugin_name \in {"bad", "missing"} :
              LoadPlugin(plugin_name) =>
                  /\ ~last'.ok
                  /\ plugin_name \notin loaded_plugins'
                  /\ loaded_plugins' = loaded_plugins
                  /\ commands' = commands /\ values' = values]_vars

\* C21 happens: the load of a plugin that was not loaded has been refused
\* while commands of another plugin are registered
C21_LoadFailed ==
    /\ last.op = "load" /\ ~last.ok /\ last.name = ""
    /\ \E c \in CommandNames : commands[c] # NoPlugin

\* C22: every command and every value that is registered belongs to a plugin
\* that is loaded, so execute_command never invokes a handler of a plugin that
\* has been unloaded.
C22_RegisteredMeansLoaded ==
    /\ \A c \in CommandNames : commands[c] # NoPlugin => commands[c] \in loaded_plugins
    /\ \A v \in ValueNames : values[v] # NoPlugin => values[v] \in loaded_plugins
    /\ (last.op = "command" /\ last.name # "") => last.name \in loaded_plugins

\* C22 happens: a plugin has been unloaded while the other is loaded and has a
\* command registered
C22_UnloadedOneOfTwo ==
    /\ last.op = "unload" /\ last.ok /\ loaded_plugins # {}
    /\ \E c \in CommandNames : commands[c] # NoPlugin

\* C23: execute_command returns True exactly when the name is in commands, and
\* then has invoked the handler once; when the name is absent it returns False
\* and invokes no handler; in both cases commands, values, loaded_plugins and
\* the task table are what they were.
C23_DispatchReturnsPresence ==
    [][last'.op = "command" =>
          \A command \in CommandNames, hok \in BOOLEAN :
              ExecuteCommand(command, hok) =>
                  /\ last'.ok <=> commands[command] # NoPlugin
                  /\ commands[command] # NoPlugin => last'.cb # "none"
                  /\ commands[command] = NoPlugin => last'.cb = "none"
                  /\ UNCHANGED <<tasks, obj, loaded_plugins, commands, values, value_names>>]_vars

\* C30: no operation of the scheduler or of the plugin manager raises to its
\* caller, whatever the callbacks and handlers do.
C30_NoCallRaises == ~RaisedToCaller

\* the line of the last privmsg as _handle_command was given it, and its tokens
HandledText == parsed_text(strip(last.message), last.is_pm)
HandledParts == shlex_split(HandledText)
CommandLine ==
    /\ last.op = "privmsg" /\ last.handled
    /\ HandledParts.error = "" /\ HandledParts.parts # <<>>
Registered(token) == \E c \in CommandNames : token = <<c>> /\ commands[c] # NoPlugin
Notice(text) ==
    /\ Len(last.replies) = 1
    /\ last.replies[1].message = text
    /\ last.replies[1].target = (IF last.is_pm THEN <<"n">> ELSE <<"#">>)

BeginsWithTrigger(s) ==
    Len(s) >= Len(Trigger) /\ \A i \in 1..Len(Trigger) : s[i] = Trigger[i]

\* the stripped line of the last privmsg without its leading trigger, if it has one
TriggerStripped ==
    IF BeginsWithTrigger(strip(last.message))
    THEN after_trigger(strip(last.message))
    ELSE strip(last.message)

\* C25: a handled line whose text after the trigger holds an unterminated
\* single or double quote gets exactly one "Missing closing quotation mark"
\* reply to the target, no dispatch and no handler, in a channel and in a
\* private exchange alike.
C25_UnterminatedQuoteReply ==
    (/\ last.op = "privmsg" /\ last.handled
     /\ shlex_split(TriggerStripped).error = "No closing quotation") =>
        /\ Notice("Missing closing quotation mark")
        /\ ~last.dispatched
        /\ last.cb = "none"

C25_UnterminatedInPrivate ==
    /\ last.op = "privmsg" /\ last.handled /\ last.is_pm
    /\ shlex_split(TriggerStripped).error = "No closing quotation"
    /\ \E i \in 1..Len(last.message) : last.message[i] = "\""
    /\ Notice("Missing closing quotation mark")

\* the last privmsg sent nothing, dispatched nothing and invoked no handler
Silent ==
    /\ last.replies = <<>>
    /\ ~last.dispatched
    /\ last.cb = "none"

\* C26: in a channel, a line that does not start with the trigger once its
\* surrounding whitespace is stripped is dropped: no reply, no handler, and
\* the registry and the task table are left as they were.
C26_StrippedLineWithoutTriggerDropped ==
    [][(/\ last'.op = "privmsg" /\ ~last'.is_pm
        /\ ~BeginsWithTrigger(strip(last'.message))) =>
           /\ Silent'
           /\ UNCHANGED <<tasks, obj, loaded_plugins, commands, values, value_names>>]_vars

C26_ChannelTalk ==
    /\ last.op = "privmsg" /\ ~last.is_pm
    /\ loaded_plugins = {"A"}
    /\ last.message = <<"x", " ", "x">>
    /\ Silent

\* C26 as stated: in a channel, a line that does not start with the trigger is
\* dropped: no reply, no handler, no change of registry or task table.
C26_LineWithoutTriggerDropped ==
    [][(/\ last'.op = "privmsg" /\ ~last'.is_pm
        /\ ~BeginsWithTrigger(last'.message)) =>
           /\ Silent'
           /\ UNCHANGED <<tasks, obj, loaded_plugins, commands, values, value_names>>]_vars

\* C27: in a private exchange a line that starts with the trigger dispatches
\* what the same line without the trigger dispatches: the same command name
\* and the same argument vector.
C27_PrivateTriggerStripped ==
    (/\ last.op = "privmsg" /\ last.handled /\ last.is_pm
     /\ BeginsWithTrigger(strip(last.message))
     /\ shlex_split(TriggerStripped).error = ""
     /\ shlex_split(TriggerStripped).parts # <<>>) =>
        /\ last.dispatched
        /\ last.command = Head(shlex_split(TriggerStripped).parts)
        /\ last.args = Tail(shlex_split(TriggerStripped).parts)

\* the words of a text that holds no quote and no backslash: the runs of
\* characters between blanks, in their order
RECURSIVE words(_, _)
words(s, word) ==
    IF s = <<>> THEN (IF word = <<>> THEN <<>> ELSE <<word>>)
    ELSE IF Head(s) = " " THEN
        (IF word = <<>> THEN <<>> ELSE <<word>>) \o words(Tail(s), <<>>)
    ELSE words(Tail(s), Append(word, Head(s)))

Unquoted(s) == \A i \in 1..Len(s) : s[i] \notin {"'", "\"", "\\"}

\* C28: a channel line made of the trigger and unquoted words w0 w1 ... wn
\* separated by blanks is dispatched as command w0 with the argument vector
\* <<w1, ..., wn>>, in the order of the line.
C28_WordsInOrder ==
    (/\ last.op = "privmsg" /\ last.handled /\ ~last.is_pm
     /\ BeginsWithTrigger(strip(last.message))
     /\ Unquoted(TriggerStripped)
     /\ words(TriggerStripped, <<>>) # <<>>) =>
        /\ last.dispatched
        /\ last.command = Head(words(TriggerStripped, <<>>))
        /\ last.args = Tail(words(TriggerStripped, <<>>))

C28_CommandWithTwoArguments ==
    /\ last.op = "privmsg" /\ ~last.is_pm
    /\ last.message = <<"!", "x", " ", "!", " ", "x">>
    /\ last.command = <<"x">>
    /\ last.args = << <<"!">>, <<"x">> >>
    /\ last.cb = "ok"

Succeeded(o) == last.cb = "ok" /\ last.o = o

\* C31: every step in which the callback of a task is invoked and returns adds
\* one to its run_count and records last_run; every other step (a firing whose
\* callback raises, start, stop, pause, resume, modify, the clock) leaves both
\* as they were; a new task starts at 0.  So run_count is the number of
\* successful firings since the task was created.
C31_RunCountCountsSuccessfulFirings ==
    [][\A o \in Objs :
          IF obj'[o].held = "free" THEN TRUE
          ELSE IF obj[o].held = "free"
          THEN /\ obj'[o].run_count = (IF Succeeded(o)' THEN 1 ELSE 0)
               /\ obj'[o].last_run <=> Succeeded(o)'
          ELSE /\ obj'[o].run_count = obj[o].run_count + (IF Succeeded(o)' THEN 1 ELSE 0)
               /\ Succeeded(o)' => obj'[o].last_run
               /\ ~Succeeded(o)' => obj'[o].last_run = obj[o].last_run]_vars

C31_RaiseAfterTwoRuns ==
    /\ last.op = "fire" /\ last.cb = "raise"
    /\ obj[last.o].run_count = 2 /\ obj[last.o].last_run
    /\ obj[last.o].state = "FAILED"

\* C32: the id a successful add_task returns is not a key of the task table
\* before the call, so no add_task puts its task in the place of another.
C32_AddReturnsFreshId ==
    [][(last'.op = "add" /\ last'.ok) =>
          \A id \in TaskIds : tasks'[id] = last'.o => tasks[id] = 0]_vars

\* where the placeholder of a name begins in a text
Occurrences(val_name, s) ==
    {i \in 1..(Len(s) - 1) : s[i] = "$" /\ s[i + 1] = val_name}

RECURSIVE Flatten(_)
Flatten(ss) == IF ss = <<>> THEN <<>> ELSE Head(ss) \o Flatten(Tail(ss))

\* after is before with value in the place of every placeholder of the name
EveryOccurrenceReplaced(val_name, before, value, after) ==
    after = Flatten([i \in 1..Len(before) |->
                        IF i \in Occurrences(val_name, before) THEN value
                        ELSE IF i - 1 \in Occurrences(val_name, before) THEN <<>>
                        ELSE <<before[i]>>])

\* C33: parse_values takes the registered value names in the order of their
\* registration; it calls the function of a name exactly when the placeholder
\* "$name" occurs in the message as it is by then, and puts the result in the
\* place of every occurrence; a message in which no registered placeholder
\* occurs is returned as it is and no function is called.
C33_SubstituteInRegistrationOrder ==
    (last.op = "values" /\ last.ok) =>
        /\ Len(last.turns) = Len(value_names)
        /\ \A k \in 1..Len(last.turns) :
              LET t == last.turns[k] IN
              /\ t.name = value_names[k]
              /\ t.before = (IF k = 1 THEN last.message ELSE last.turns[k - 1].after)
              /\ t.invoked <=> Occurrences(t.name, t.before) # {}
              /\ EveryOccurrenceReplaced(t.name, t.before, t.value, t.after)
        /\ last.result = (IF last.turns = <<>> THEN last.message
                          ELSE last.turns[Len(last.turns)].after)
        /\ (\A k \in 1..Len(value_names) : Occurrences(value_names[k], last.message) = {}) =>
               /\ last.result = last.message
               /\ last.cb = "none"

C33_TwoNamesLaterFirst ==
    /\ last.op = "values" /\ last.ok
    /\ value_names = <<"w", "v">>
    /\ last.message = <<"$", "v", "$", "v">>
    /\ last.turns[2].invoked
    /\ last.result = <<"a", "a">>

\* C34: a timer that will invoke a task's callback exists only for a task that
\* is in the task table and RUNNING, or FAILED and periodic; none exists for a
\* task that is PENDING, PAUSED, STOPPED or COMPLETED, nor for a removed one.
C34_TimersOnlyWhileRunning ==
    \A o \in Objs :
        CallbackTimers(obj[o]) > 0 =>
            /\ obj[o].held = "table"
            /\ \/ obj[o].state = "RUNNING"
               \/ obj[o].state = "FAILED" /\ obj[o].periodic

\* C35: the run_count of a periodic task with max_runs set never passes
\* max_runs: no step that leaves max_runs as it is takes run_count from within
\* the bound to beyond it, and a new task starts within it.
C35_RunCountWithinMaxRuns ==
    [][\A o \in Objs :
          (/\ obj'[o].held # "free" /\ obj'[o].periodic /\ obj'[o].max_runs # None
           /\ obj[o].held # "free" =>
                  obj[o].max_runs = obj'[o].max_runs /\ obj[o].run_count <= obj[o].max_runs) =>
              obj'[o].run_count <= obj'[o].max_runs]_vars

\* C36: after unload_plugin(A) has succeeded, every command and value name
\* that a plugin still loaded exports is registered and belongs to that
\* plugin, also a name that A exported as well.
C36_UnloadKeepsOtherPlugins ==
    (last.op = "unload" /\ last.ok) =>
        \A plugin_name \in loaded_plugins :
            /\ \A c \in PluginCommands(plugin_name) : commands[c] = plugin_name
            /\ \A v \in PluginValues(plugin_name) : values[v] = plugin_name

\* C37: a task that is COMPLETED stays COMPLETED for as long as it is in the
\* task table: start, stop, pause and resume fail on it, modify leaves its
\* state, and its callback is not invoked again.
C37_CompletedIsFinal ==
    [][\A o \in Objs :
          (/\ obj[o].held = "table" /\ obj[o].state = "COMPLETED"
           /\ obj'[o].held = "table") =>
              /\ obj'[o].state = "COMPLETED"
              /\ ~(last'.op = "fire" /\ last'.o = o /\ last'.cb # "none")
              /\ last'.op \in {"start", "stop", "pause", "resume"} => ~last'.ok]_vars

C39_StartedOnetimeFires ==
    \A o \in Objs :
        (obj[o].held = "table" /\ ~obj[o].periodic /\ obj[o].state = "RUNNING")
            ~> \/ obj[o].held # "table"
               \/ obj[o].state = "STOPPED"
               \/ /\ last.op = "fire" /\ last.o = o /\ last.cb # "none"
                  /\ obj[o].state # "RUNNING"
                  /\ last.cb = "ok" => obj[o].state = "COMPLETED"

C39_FiredAfterDelay ==
    /\ last.op = "fire" /\ last.cb = "ok"
    /\ obj[last.o].held = "table" /\ ~obj[last.o].periodic
    /\ obj[last.o].delay = 1
    /\ obj[last.o].state = "COMPLETED" /\ obj[last.o].run_count = 1

\* the callback of object o was invoked in the last step
Invoked(o) == last.o = o /\ last.cb # "none"

\* C40: the callback of a one-time task is invoked at most once: it is never
\* invoked on a task that is COMPLETED, every invocation leaves the task
\* COMPLETED, and a one-time task that is COMPLETED stays so.
C40_OnetimeInvokedOnce ==
    [][\A o \in Objs :
          (obj[o].held # "free" /\ obj'[o].held # "free" /\ ~obj[o].periodic) =>
              /\ Invoked(o)' => obj[o].state # "COMPLETED" /\ obj'[o].state = "COMPLETED"
              /\ obj[o].state = "COMPLETED" => obj'[o].state = "COMPLETED"]_vars

C40_FiredAfterRestart ==
    /\ last.op = "fire" /\ last.cb = "ok"
    /\ ~obj[last.o].periodic /\ ~obj[last.o].pure
    /\ obj[last.o].state = "COMPLETED" /\ obj[last.o].run_count = 1
====
